---- MODULE Spec2Model ----
(***************************************************************************)
(* The photo-booth session lifecycle of app/api/routes/session.py: the     *)
(* module-level session store, the current-session pointer, the request    *)
(* handlers create / capture / select-photos / finalize / status / reset,  *)
(* and the WebSocketManager broadcast they await; and the collage composer *)
(* of app/services/photo.py that finalize calls.                           *)
(*                                                                         *)
(* Handlers are asyncio coroutines on one event loop.  A handler runs      *)
(* without interruption up to an await that suspends; the only such awaits *)
(* are the send_text calls inside WebSocketManager.broadcast.  One action  *)
(* of the model is one such uninterrupted run: from the call (or from the  *)
(* resumption after a send) up to the next send or to the return.          *)
(***************************************************************************)
EXTENDS Integers, Sequences, FiniteSets, TLC

VARIABLES
    objects,             \* the PhotoSession instances alive, by session_id
    active_sessions,     \* keys of the dict active_sessions (key k holds objects[k])
    current_session,     \* the global current_session: a session_id or None
    uuid_count,          \* number of uuid4() session ids drawn so far
    active_connections,  \* WebSocketManager.active_connections, a list
    requests,            \* the request handlers in flight, by slot
    files,               \* photos_dir: per file written, the session it shows
    written,             \* the composite the last step wrote to photos_dir, if any
    response,            \* what the last step returned to its HTTP caller, if anything
    accepted,            \* number of WebSocket connections accepted so far
    event,               \* the message the last step handed to broadcast, if any
    broadcasts,          \* per handler suspended in broadcast: who was connected at
                         \* the call, and the send_text calls made so far
    now,                 \* datetime.now(), in whole seconds
    composed,            \* the last call of PhotoService.create_collage made on
                         \* its own: its arguments and what came of it
    fonts                \* the font files ImageFont.truetype can load on this host

vars == <<objects, active_sessions, current_session, uuid_count,
          active_connections, requests, files, written, response,
          accepted, event, broadcasts, now, composed, fonts>>

----------------------------------------------------------------------------
(* Bounds of the model *)

MaxSessions == 1

MaxAsyncSessions == 2

MaxCreates == 2

MaxExtra == 1

MaxConnections == 1

MaxSubscribers == 2

MaxRequests == 2

MaxStart == 4

MaxImages == 9

MaxClock == 2

----------------------------------------------------------------------------
(* Constants of the program *)

None == 0

LayoutType == {"double", "quad", "strip"}

OrientationType == {"portrait", "landscape"}

\* A variant of capture_limits whose quad quota is below the quad final limit.
capture_limits_short == [double |-> 4, quad |-> 3, strip |-> 12]

capture_limits == [double |-> 4, quad |-> 6, strip |-> 12]

final_limits == [double |-> 2, quad |-> 4, strip |-> 8]

WebSockets == 1..MaxConnections

Subscribers == 1..MaxSubscribers

Slots == 1..MaxRequests

----------------------------------------------------------------------------
(* Index lists a client may post to /select-photos.  Python indices are    *)
(* 0-based: index i names photos[i + 1] here.                              *)

SelLens == {0, 2, 3, 4, 8}

Starts == {-1, 0, MaxStart}

Steps == {0, 2}

Pattern(len, start, step) == [k \in 1..len |-> start + step * (k - 1)]

Reverse(s) == [k \in 1..Len(s) |-> s[Len(s) + 1 - k]]

ScenarioLists == {<<0, 2>>, <<1, 3, 4, 5>>, <<0, 1, 2>>, <<2, 0, 3, 1>>}

\* Runs of consecutive indices from several starts (one below 0, one beyond
\* the first photos), one index repeated, every second index, a descending
\* run, and the lists of the documented scenarios.
SelectRequests ==
    {Pattern(l, s, 1) : l \in SelLens, s \in Starts}
        \cup {Pattern(l, 0, d) : l \in SelLens, d \in Steps}
        \cup {Reverse(Pattern(l, 0, 1)) : l \in SelLens}
        \cup ScenarioLists

----------------------------------------------------------------------------
(* Data *)

PhotoSession(session_id, layout, orientation) ==
    [session_id |-> session_id,
     photos |-> <<>>,
     selected_photos |-> <<>>,
     layout |-> layout,
     orientation |-> orientation,
     template |-> None,
     capture_complete |-> FALSE,
     selection_complete |-> FALSE]

Idle == [pc |-> "idle"]

NoBody == <<>>

\* The value of `written` after a step that saved nothing.
NoFile ==
    [images |-> <<>>, layout |-> "", orientation |-> "",
     size |-> <<0, 0>>, pastes |-> <<>>, timestamp |-> -1, font |-> ""]

NoResponse == [op |-> "none", status |-> 0, detail |-> "", body |-> NoBody]

\* The value of `composed` before the composer was called on its own.
NoCall ==
    [called |-> FALSE, photos |-> <<>>, layout |-> "", orientation |-> "",
     error |-> "none", image |-> NoFile]

\* The value of `event` after a step that did not call broadcast.
NoEvent == [type |-> "none"]

\* The value of broadcasts[r] while handler r is not inside broadcast.
\* `after` names the handlers that were already inside their broadcast, and
\* still are, when r called its own: their requests were applied before r's.
NoBroadcast == [audience |-> <<>>, sends |-> <<>>, after |-> {}]

HTTPException(op, status, detail) ==
    [op |-> op, status |-> status, detail |-> detail, body |-> NoBody]

Success(op, body) == [op |-> op, status |-> 200, detail |-> "success", body |-> body]

\* `current_session is None or current_session not in active_sessions`
NoActiveSession == current_session = None \/ current_session \notin active_sessions

\* The lowest free handler slot: a new request is served by a new coroutine.
FreeSlot(r) ==
    /\ requests[r].pc = "idle"
    /\ \A q \in Slots : q < r => requests[q].pc # "idle"

\* Instances no longer referenced by the dict or by a suspended handler are
\* garbage: nothing can read them again.
Live(objs, keys, reqs) ==
    LET held == {reqs[q].session : q \in {p \in Slots : reqs[p].pc # "idle"}}
    IN  [k \in (DOMAIN objs) \cap (keys \cup held) |-> objs[k]]

----------------------------------------------------------------------------
(* PhotoService *)

\* What the layout pastes: the double layout reads images[0] and images[1],
\* quad keeps images[:4], strip keeps images[:8].
Placed(images, layout) ==
    LET n == IF layout = "double" THEN 2 ELSE IF layout = "quad" THEN 4 ELSE 8
    IN  SubSeq(images, 1, IF Len(images) < n THEN Len(images) ELSE n)

\* An image is a tuple: a frame <<session_id, n>> of the camera, or a picture
\* <<0, k, width, height>> handed to the composer directly.
camera_width == 1920

camera_height == 1080

Width(img) == IF Len(img) = 4 THEN img[3] ELSE camera_width

Height(img) == IF Len(img) = 4 THEN img[4] ELSE camera_height

\* `int(target * (a / b))`: the scaled length, cut to a whole pixel.
Scaled(target, a, b) == (target * a) \div b

\* final_img.paste(img, pos) of an image resized to `size`.
Paste(img, size, pos) == [image |-> img, size |-> size, at |-> pos]

\* A variant of SecondOffset that leaves no gap before the first image.
SecondOffsetOneGap(extent, gap) == extent + gap

\* `img1.width + gap * 2` and `img1.height + gap * 2`
SecondOffset(extent, gap) == extent + gap * 2

create_double_layout(images, orientation) ==
    LET img1 == images[1]
        img2 == images[2]
        gap == 20
    IN  IF orientation = "landscape"
        THEN LET target_height == 600
                 w1 == Scaled(target_height, Width(img1), Height(img1))
                 w2 == Scaled(target_height, Width(img2), Height(img2))
                 total_width == w1 + w2 + gap * 3
                 total_height == target_height + gap * 2
             IN  [size |-> <<total_width, total_height>>,
                  pastes |-> <<Paste(img1, <<w1, target_height>>, <<gap, gap>>),
                               Paste(img2, <<w2, target_height>>,
                                     <<SecondOffset(w1, gap), gap>>)>>]
        ELSE LET target_width == 600
                 h1 == Scaled(target_width, Height(img1), Width(img1))
                 h2 == Scaled(target_width, Height(img2), Width(img2))
                 total_width == target_width + gap * 2
                 total_height == h1 + h2 + gap * 3
             IN  [size |-> <<total_width, total_height>>,
                  pastes |-> <<Paste(img1, <<target_width, h1>>, <<gap, gap>>),
                               Paste(img2, <<target_width, h2>>,
                                     <<gap, SecondOffset(h1, gap)>>)>>]

\* `images[:n]`
Slice(images, n) == SubSeq(images, 1, IF Len(images) < n THEN Len(images) ELSE n)

\* A variant of Extent that counts only the gaps between the cells.
ExtentInnerGaps(target, cells, gap) == target * cells + gap * (cells - 1)

\* `target_size[0] * cols + gap * (cols + 1)`, and the same for the rows
Extent(target, cells, gap) == target * cells + gap * (cells + 1)

\* A variant of RowPositions that leaves no gap between the columns:
\* `x = gap + col * target_size[0]`.
RowPositionsAbutting(row, cols, target_size, gap) ==
    [c \in 1..cols |-> <<gap + (c - 1) * target_size[1],
                         gap + row * (target_size[2] + gap)>>]

\* The inner loop `for col in range(cols)` for one row.
RowPositions(row, cols, target_size, gap) ==
    [c \in 1..cols |-> <<gap + (c - 1) * (target_size[1] + gap),
                         gap + row * (target_size[2] + gap)>>]

\* The inner loop of the variant, `for row in range(rows)` for one column.
ColumnPositions(col, rows, target_size, gap) ==
    [r \in 1..rows |-> <<gap + col * (target_size[1] + gap),
                         gap + (r - 1) * (target_size[2] + gap)>>]

\* A variant of GridPositions whose loops are nested the other way round:
\* `for col in range(cols): for row in range(rows)`.
RECURSIVE GridPositionsByColumn(_, _, _, _)
GridPositionsByColumn(rows, cols, target_size, gap) ==
    IF cols = 0
    THEN <<>>
    ELSE GridPositionsByColumn(rows, cols - 1, target_size, gap)
            \o ColumnPositions(cols - 1, rows, target_size, gap)

\* `for row in range(rows): for col in range(cols): positions.append((x, y))`
RECURSIVE GridPositions(_, _, _, _)
GridPositions(rows, cols, target_size, gap) ==
    IF rows = 0
    THEN <<>>
    ELSE GridPositions(rows - 1, cols, target_size, gap)
            \o RowPositions(rows - 1, cols, target_size, gap)

\* `for img, pos in zip(resized_images, positions): final_img.paste(img, pos)`
ZipPaste(images, target_size, positions) ==
    LET n == IF Len(images) < Len(positions) THEN Len(images) ELSE Len(positions)
    IN  [i \in 1..n |-> Paste(images[i], target_size, positions[i])]

\* The canvas and the pastes of lines 84-100 and 114-129.
GridLayout(images, target_size, cols, rows, gap) ==
    [size |-> <<Extent(target_size[1], cols, gap), Extent(target_size[2], rows, gap)>>,
     pastes |-> ZipPaste(images, target_size,
                         GridPositions(rows, cols, target_size, gap))]

create_quad_layout(images, orientation) ==
    IF orientation = "landscape"
    THEN GridLayout(Slice(images, 4), <<400, 300>>, 2, 2, 20)
    ELSE GridLayout(Slice(images, 4), <<350, 250>>, 1, 4, 15)

create_strip_layout(images, orientation) ==
    IF orientation = "portrait"
    THEN GridLayout(Slice(images, 8), <<280, 200>>, 2, 4, 15)
    ELSE GridLayout(Slice(images, 8), <<200, 280>>, 4, 2, 15)

\* A variant of quad_positions whose second and third entries are exchanged.
quad_positions_exchanged(target_size, gap, orientation) ==
    IF orientation = "landscape"
    THEN <<<<gap, gap>>,
           <<gap, target_size[2] + gap * 2>>,
           <<target_size[1] + gap * 2, gap>>,
           <<target_size[1] + gap * 2, target_size[2] + gap * 2>>>>
    ELSE <<<<gap, gap>>,
           <<gap, target_size[2] * 2 + gap * 3>>,
           <<gap, target_size[2] + gap * 2>>,
           <<gap, target_size[2] * 3 + gap * 4>>>>

\* The position lists written out in PhotoboothService.create_collage
\* (main.py), one per orientation.
quad_positions(target_size, gap, orientation) ==
    IF orientation = "landscape"
    THEN <<<<gap, gap>>,
           <<target_size[1] + gap * 2, gap>>,
           <<gap, target_size[2] + gap * 2>>,
           <<target_size[1] + gap * 2, target_size[2] + gap * 2>>>>
    ELSE <<<<gap, gap>>,
           <<gap, target_size[2] + gap * 2>>,
           <<gap, target_size[2] * 2 + gap * 3>>,
           <<gap, target_size[2] * 3 + gap * 4>>>>

\* The quad branch of PhotoboothService.create_collage (main.py): the canvas
\* and the pastes of the implementation that keeps everything in one module.
PhotoboothService_quad(images, orientation) ==
    LET pil_images == Slice(images, 4)
    IN  IF orientation = "landscape"
        THEN LET target_size == <<400, 300>>
                 cols == 2
                 rows == 2
                 gap == 20
             IN  [size |-> <<target_size[1] * cols + gap * (cols + 1),
                             target_size[2] * rows + gap * (rows + 1)>>,
                  pastes |-> ZipPaste(pil_images, target_size,
                                      quad_positions(target_size, gap, orientation))]
        ELSE LET target_size == <<350, 250>>
                 rows == 4
                 gap == 15
             IN  [size |-> <<target_size[1] + gap * 2,
                             target_size[2] * rows + gap * (rows + 1)>>,
                  pastes |-> ZipPaste(pil_images, target_size,
                                      quad_positions(target_size, gap, orientation))]

\* The preferred fonts of _add_timestamp, in the order they are tried.
font_paths ==
    <<"arial.ttf",
      "/System/Library/Fonts/Arial.ttf",
      "/usr/share/fonts/truetype/dejavu/DejaVuSans.ttf">>

\* `font = None`
NoFont == ""

\* The loop over font_paths from its i-th entry: ImageFont.truetype raises
\* for a file that cannot be loaded, and the loop goes on (`continue`); the
\* first font that loads ends it (`break`).
RECURSIVE TryFonts(_, _)
TryFonts(i, installed) ==
    IF i > Len(font_paths)
    THEN NoFont
    ELSE IF font_paths[i] \in installed
    THEN font_paths[i]
    ELSE TryFonts(i + 1, installed)

\* A variant of load_font without `if not font: font = load_default()`.
load_font_or_none(installed) == TryFonts(1, installed)

\* The font the timestamp is drawn with: lines 137-153 of _add_timestamp.
load_font(installed) ==
    LET font == TryFonts(1, installed)
    IN  IF font = NoFont THEN "default" ELSE font

\* The composite: its canvas, what is pasted where, and the time that
\* _add_timestamp draws on it; with the images it shows in paste order, and
\* its layout.
create_collage(photos, layout, orientation) ==
    LET final_img == IF layout = "double"
                     THEN create_double_layout(photos, orientation)
                     ELSE IF layout = "quad"
                     THEN create_quad_layout(photos, orientation)
                     ELSE create_strip_layout(photos, orientation)
    IN  [images |-> Placed(photos, layout),
         layout |-> layout,
         orientation |-> orientation,
         size |-> final_img.size,
         pastes |-> final_img.pastes,
         timestamp |-> now,
         font |-> load_font(fonts)]

\* A variant of ComposeError without the check of lines 14-15.
ComposeErrorUnchecked(photos, layout) ==
    IF layout = "double" /\ Len(photos) < 2
    THEN "IndexError"
    ELSE "none"

\* What create_collage raises: ValueError("No photos provided") for an empty
\* list, IndexError when the double layout reads images[1] of a single image.
ComposeError(photos, layout) ==
    IF Len(photos) = 0
    THEN "ValueError"
    ELSE IF layout = "double" /\ Len(photos) < 2
    THEN "IndexError"
    ELSE "none"

\* create_collage raises ValueError on an empty list, and the double layout
\* raises IndexError when it reads images[1] of a shorter list.
ComposeRaises(photos, layout) ==
    Len(photos) = 0 \/ (layout = "double" /\ Len(photos) < 2)

\* A variant of SelectedImages that takes the photos in capture order:
\* `session.photos[:len(session.selected_photos)]`
SelectedImagesInCaptureOrder(session) ==
    SubSeq(session.photos, 1, Len(session.selected_photos))

\* `[session.photos[i] for i in session.selected_photos]`
SelectedImages(session) ==
    [k \in 1..Len(session.selected_photos) |->
        session.photos[session.selected_photos[k] + 1]]

----------------------------------------------------------------------------
(* WebSocketManager *)

\* Every accepted connection is a new WebSocket object: ws is the next one.
Connect(ws) ==
    /\ UNCHANGED <<now, composed, fonts>>
    /\ ws = accepted + 1
    /\ accepted' = ws
    /\ active_connections' = Append(active_connections, ws)
    /\ response' = NoResponse
    /\ written' = NoFile
    /\ event' = NoEvent
    /\ UNCHANGED <<objects, active_sessions, current_session, uuid_count,
                   requests, files, broadcasts>>

\* list.remove: the first occurrence goes, later elements shift down.
Remove(list, x) ==
    LET at == CHOOSE k \in 1..Len(list) : list[k] = x /\ \A j \in 1..(k - 1) : list[j] # x
    IN  SubSeq(list, 1, at - 1) \o SubSeq(list, at + 1, Len(list))

Disconnect(ws) ==
    /\ UNCHANGED <<now, composed, fonts>>
    /\ \E k \in 1..Len(active_connections) : active_connections[k] = ws
    /\ active_connections' = Remove(active_connections, ws)
    /\ response' = NoResponse
    /\ written' = NoFile
    /\ event' = NoEvent
    /\ UNCHANGED <<objects, active_sessions, current_session, uuid_count,
                   requests, files, accepted, broadcasts>>

----------------------------------------------------------------------------
(* The code of a handler after its broadcast loop has run out *)

\* A variant of finalize_return that returns without lines 152-153.
finalize_return_keeps(h) ==
    /\ response' = Success("finalize", [filename |-> h.message.filename,
                                        collage |-> h.message.collage])
    /\ UNCHANGED <<active_sessions, current_session>>

\* A variant of finalize_return that deletes the entry (line 152) and leaves
\* current_session as it is (no line 153).
finalize_return_dangling(h) ==
    /\ active_sessions' = active_sessions \ {current_session}
    /\ current_session' = current_session
    /\ response' = Success("finalize", [filename |-> h.message.filename,
                                        collage |-> h.message.collage])

\* Lines 152-160 of finalize_session: `del active_sessions[current_session]`
\* raises KeyError when the key is gone, and the request ends in a 500.
finalize_return(h) ==
    IF current_session \in active_sessions
    THEN /\ active_sessions' = active_sessions \ {current_session}
         /\ current_session' = None
         /\ response' = Success("finalize", [filename |-> h.message.filename,
                                             collage |-> h.message.collage])
    ELSE /\ response' = HTTPException("finalize", 500, "Internal Server Error")
         /\ UNCHANGED <<active_sessions, current_session>>

Return(r, h, objs) ==
    /\ IF h.op = "finalize"
       THEN finalize_return(h)
       ELSE /\ response' =
                 IF h.op = "capture"
                 THEN Success("capture",
                              [photo_count |-> Len(objs[h.session].photos),
                               capture_complete |-> h.message.capture_complete,
                               max_capture_photos |-> h.message.max_capture_photos,
                               final_photos_needed |-> h.message.final_photos_needed,
                               photo |-> h.message.photo])
                 ELSE Success("select", [selected_indices |-> h.message.selected_indices])
            /\ UNCHANGED <<active_sessions, current_session>>
    /\ requests' = [requests EXCEPT ![r] = Idle]
    /\ broadcasts' = [q \in Slots |->
                         IF q = r
                         THEN NoBroadcast
                         ELSE [broadcasts[q] EXCEPT !.after = @ \ {r}]]
    /\ objects' = Live(objs, active_sessions', requests')

\* `for connection in self.active_connections: await connection.send_text(...)`:
\* the list iterator holds an index into the live list; the handler is suspended
\* in each send and resumed after it.  A send_text that raises (ok = FALSE) is
\* swallowed by `except: pass` and the loop goes on.  log is the record of
\* this broadcast so far.
Continue(r, h, objs, log) ==
    IF h.it <= Len(active_connections)
    THEN /\ requests' = [requests EXCEPT ![r] = [h EXCEPT !.it = @ + 1]]
         /\ \E ok \in BOOLEAN :
                broadcasts' = [broadcasts EXCEPT ![r] =
                    [log EXCEPT !.sends =
                        Append(@, [to |-> active_connections[h.it], ok |-> ok])]]
         /\ objects' = Live(objs, active_sessions, requests')
         /\ response' = NoResponse
         /\ UNCHANGED <<active_sessions, current_session>>
    ELSE Return(r, h, objs)

\* The call of broadcast(message) by handler h.
Broadcast(r, h, objs) ==
    /\ event' = h.message
    /\ Continue(r, h, objs,
                [audience |-> active_connections,
                 sends |-> <<>>,
                 after |-> {q \in Slots : requests[q].pc = "broadcast"}])

Handler(op, session, message) ==
    [pc |-> "broadcast", op |-> op, session |-> session, message |-> message, it |-> 1]

\* A suspended handler is resumed after its send.
Resume(r) ==
    /\ UNCHANGED <<now, composed, fonts>>
    /\ requests[r].pc = "broadcast"
    /\ Continue(r, requests[r], objects, broadcasts[r])
    /\ written' = NoFile
    /\ event' = NoEvent
    /\ UNCHANGED <<uuid_count, active_connections, files, accepted>>

----------------------------------------------------------------------------
(* The request handlers of app/api/routes/session.py *)

\* A variant of create_session whose new session starts from the photos and
\* flags of the session that was active.
create_session_keeps(layout, orientation) ==
    /\ UNCHANGED <<now, composed, fonts>>
    /\ LET session_id == uuid_count + 1
           session == IF NoActiveSession
                      THEN PhotoSession(session_id, layout, orientation)
                      ELSE [objects[current_session] EXCEPT
                               !.session_id = session_id,
                               !.layout = layout,
                               !.orientation = orientation]
       IN  /\ uuid_count' = session_id
           /\ active_sessions' = active_sessions \cup {session_id}
           /\ current_session' = session_id
           /\ objects' = Live([k \in (DOMAIN objects) \cup {session_id} |->
                                  IF k = session_id THEN session ELSE objects[k]],
                              active_sessions', requests)
           /\ response' = Success("create",
                                  [session_id |-> session_id,
                                   layout |-> layout,
                                   orientation |-> orientation,
                                   max_capture_photos |-> capture_limits[layout],
                                   final_photos_needed |-> final_limits[layout]])
    /\ written' = NoFile
    /\ event' = NoEvent
    /\ UNCHANGED <<active_connections, requests, files, accepted, broadcasts>>

create_session(layout, orientation) ==
    /\ UNCHANGED <<now, composed, fonts>>
    /\ LET session_id == uuid_count + 1
       IN  /\ uuid_count' = session_id
           /\ active_sessions' = active_sessions \cup {session_id}
           /\ current_session' = session_id
           /\ objects' = Live([k \in (DOMAIN objects) \cup {session_id} |->
                                  IF k = session_id
                                  THEN PhotoSession(session_id, layout, orientation)
                                  ELSE objects[k]],
                              active_sessions', requests)
           /\ response' = Success("create",
                                  [session_id |-> session_id,
                                   layout |-> layout,
                                   orientation |-> orientation,
                                   max_capture_photos |-> capture_limits[layout],
                                   final_photos_needed |-> final_limits[layout]])
    /\ written' = NoFile
    /\ event' = NoEvent
    /\ UNCHANGED <<active_connections, requests, files, accepted, broadcasts>>

\* A frame is an opaque blob, new at every read of the camera: it is named by
\* the session that receives it and its place there.
Frame(session) == <<session.session_id, Len(session.photos) + 1>>

\* A variant of Captured whose quota check reads `>` for `>=`.
CapturedLate(session, photo_b64) ==
    LET photos == Append(session.photos, photo_b64)
    IN  [session EXCEPT
            !.photos = photos,
            !.capture_complete =
                IF Len(photos) > capture_limits[session.layout] THEN TRUE ELSE @]

\* A variant of Captured that assigns the flag at every capture:
\* `session.capture_complete = len(session.photos) == max_capture_photos`.
CapturedAtQuotaOnly(session, photo_b64) ==
    LET photos == Append(session.photos, photo_b64)
    IN  [session EXCEPT
            !.photos = photos,
            !.capture_complete = (Len(photos) = capture_limits[session.layout])]

\* A variant of Captured that puts the new photo first:
\* `session.photos.insert(0, photo_b64)`.
CapturedNewestFirst(session, photo_b64) ==
    LET photos == <<photo_b64>> \o session.photos
    IN  [session EXCEPT
            !.photos = photos,
            !.capture_complete =
                IF Len(photos) >= capture_limits[session.layout] THEN TRUE ELSE @]

\* session.photos.append(photo_b64) and the quota check of lines 60-67
Captured(session, photo_b64) ==
    LET photos == Append(session.photos, photo_b64)
    IN  [session EXCEPT
            !.photos = photos,
            !.capture_complete =
                IF Len(photos) >= capture_limits[session.layout] THEN TRUE ELSE @]

\* A variant of camera_raises in which the frame source is asked again until
\* it delivers, so that no failure reaches the handler.
camera_retried(camera_ok) == FALSE

\* CameraService.capture_photo raises HTTPException(500) when the camera does
\* not open or the read fails; nothing catches it and nothing asks again.
camera_raises(camera_ok) == ~camera_ok

\* camera_ok: whether CameraService.capture_photo returns a frame or raises.
capture_photo(r, camera_ok) ==
    /\ UNCHANGED <<now, composed, fonts>>
    /\ FreeSlot(r)
    /\ IF NoActiveSession
       THEN /\ response' = HTTPException("capture", 400, "No active session")
            /\ event' = NoEvent
            /\ UNCHANGED <<objects, active_sessions, current_session, requests,
                           broadcasts>>
       ELSE IF camera_raises(camera_ok)
       THEN /\ response' = HTTPException("capture", 500, "Camera not available")
            /\ event' = NoEvent
            /\ UNCHANGED <<objects, active_sessions, current_session, requests,
                           broadcasts>>
       ELSE /\ LET photo_b64 == Frame(objects[current_session])
                   session == Captured(objects[current_session], photo_b64)
                   max_capture_photos == capture_limits[session.layout]
                   message == [type |-> "photo_captured",
                               session_id |-> current_session,
                               photo_count |-> Len(session.photos),
                               photo |-> photo_b64,
                               capture_complete |-> Len(session.photos) >= max_capture_photos,
                               max_capture_photos |-> max_capture_photos,
                               final_photos_needed |-> final_limits[session.layout]]
               IN  Broadcast(r, Handler("capture", current_session, message),
                             [objects EXCEPT ![current_session] = session])
    /\ written' = NoFile
    /\ UNCHANGED <<uuid_count, active_connections, files, accepted>>

\* A variant of CaptureIncomplete that only refuses a session without photos.
CaptureNotStarted(session) == Len(session.photos) = 0

\* `if not session.capture_complete`
CaptureIncomplete(session) == ~session.capture_complete

\* A variant of WrongCount that reads `<` for `!=`.
TooFew(session, selected_indices) ==
    Len(selected_indices) < final_limits[session.layout]

\* `len(request.selected_indices) != final_photos_needed`
WrongCount(session, selected_indices) ==
    Len(selected_indices) # final_limits[session.layout]

\* A variant of InvalidIndex without `idx < 0`: a negative index passes.
InvalidIndexUpperOnly(session, selected_indices) ==
    \E k \in 1..Len(selected_indices) :
        selected_indices[k] >= Len(session.photos)

\* A variant of InvalidIndex that reads `idx > len(session.photos)`.
InvalidIndexOffByOne(session, selected_indices) ==
    \E k \in 1..Len(selected_indices) :
        selected_indices[k] < 0 \/ selected_indices[k] > Len(session.photos)

\* `idx < 0 or idx >= len(session.photos)` for some idx of the list
InvalidIndex(session, selected_indices) ==
    \E k \in 1..Len(selected_indices) :
        selected_indices[k] < 0 \/ selected_indices[k] >= Len(session.photos)

\* A variant of Selected that records the list and leaves the flag alone.
SelectedUnflagged(session, selected_indices) ==
    [session EXCEPT !.selected_photos = selected_indices]

\* lines 112-113
Selected(session, selected_indices) ==
    [session EXCEPT !.selected_photos = selected_indices, !.selection_complete = TRUE]

\* A variant of select_photos that stores the list before it checks the
\* indices, and so leaves it stored when it refuses one.
select_photos_stores_first(r, selected_indices) ==
    /\ UNCHANGED <<now, composed, fonts>>
    /\ FreeSlot(r)
    /\ IF NoActiveSession
       THEN /\ response' = HTTPException("select", 404, "No active session")
            /\ event' = NoEvent
            /\ UNCHANGED <<objects, active_sessions, current_session, requests,
                           broadcasts>>
       ELSE IF CaptureIncomplete(objects[current_session])
       THEN /\ response' = HTTPException("select", 400, "Photo capture not complete yet")
            /\ event' = NoEvent
            /\ UNCHANGED <<objects, active_sessions, current_session, requests,
                           broadcasts>>
       ELSE IF WrongCount(objects[current_session], selected_indices)
       THEN /\ response' = HTTPException("select", 400, "Must select exactly N photos")
            /\ event' = NoEvent
            /\ UNCHANGED <<objects, active_sessions, current_session, requests,
                           broadcasts>>
       ELSE IF InvalidIndex(objects[current_session], selected_indices)
       THEN /\ response' = HTTPException("select", 400, "Invalid photo index")
            /\ event' = NoEvent
            /\ objects' = [objects EXCEPT ![current_session].selected_photos =
                                              selected_indices]
            /\ UNCHANGED <<active_sessions, current_session, requests, broadcasts>>
       ELSE LET message == [type |-> "selection_complete",
                            session_id |-> current_session,
                            selected_indices |-> selected_indices]
            IN  Broadcast(r, Handler("select", current_session, message),
                          [objects EXCEPT ![current_session] =
                               Selected(objects[current_session], selected_indices)])
    /\ written' = NoFile
    /\ UNCHANGED <<uuid_count, active_connections, files, accepted>>

select_photos(r, selected_indices) ==
    /\ UNCHANGED <<now, composed, fonts>>
    /\ FreeSlot(r)
    /\ IF NoActiveSession
       THEN /\ response' = HTTPException("select", 404, "No active session")
            /\ event' = NoEvent
            /\ UNCHANGED <<objects, active_sessions, current_session, requests,
                           broadcasts>>
       ELSE IF CaptureIncomplete(objects[current_session])
       THEN /\ response' = HTTPException("select", 400, "Photo capture not complete yet")
            /\ event' = NoEvent
            /\ UNCHANGED <<objects, active_sessions, current_session, requests,
                           broadcasts>>
       ELSE IF WrongCount(objects[current_session], selected_indices)
       THEN /\ response' = HTTPException("select", 400, "Must select exactly N photos")
            /\ event' = NoEvent
            /\ UNCHANGED <<objects, active_sessions, current_session, requests,
                           broadcasts>>
       ELSE IF InvalidIndex(objects[current_session], selected_indices)
       THEN /\ response' = HTTPException("select", 400, "Invalid photo index")
            /\ event' = NoEvent
            /\ UNCHANGED <<objects, active_sessions, current_session, requests,
                           broadcasts>>
       ELSE LET message == [type |-> "selection_complete",
                            session_id |-> current_session,
                            selected_indices |-> selected_indices]
            IN  Broadcast(r, Handler("select", current_session, message),
                          [objects EXCEPT ![current_session] =
                               Selected(objects[current_session], selected_indices)])
    /\ written' = NoFile
    /\ UNCHANGED <<uuid_count, active_connections, files, accepted>>

\* A variant of SelectionIncomplete that tests the other flag.
SelectionNotOpen(session) == ~session.capture_complete

\* `if not session.selection_complete`
SelectionIncomplete(session) == ~session.selection_complete

\* A variant of ServiceRaises in which a failure of save_photo is caught and
\* dropped (`try: ... except OSError: pass`), so that finalize goes on.
ServiceRaisesInComposeOnly(outcome) == outcome = "compose failed"

\* create_collage (decoding, PIL) or save_photo (open, write) raises; nothing
\* in finalize_session catches it.
ServiceRaises(outcome) == outcome # "saved"

\* outcome: whether create_collage and save_photo return, or which of them raises.
finalize_session(r, outcome) ==
    /\ UNCHANGED <<now, composed, fonts>>
    /\ FreeSlot(r)
    /\ IF NoActiveSession
       THEN /\ response' = HTTPException("finalize", 404, "No active session")
            /\ written' = NoFile
            /\ event' = NoEvent
            /\ UNCHANGED <<objects, active_sessions, current_session, requests, files,
                           broadcasts>>
       ELSE IF SelectionIncomplete(objects[current_session])
       THEN /\ response' = HTTPException("finalize", 400, "Photo selection not complete")
            /\ written' = NoFile
            /\ event' = NoEvent
            /\ UNCHANGED <<objects, active_sessions, current_session, requests, files,
                           broadcasts>>
       ELSE IF \/ ServiceRaises(outcome)
               \/ ComposeRaises(SelectedImages(objects[current_session]),
                                objects[current_session].layout)
       THEN /\ response' = HTTPException("finalize", 500, "Internal Server Error")
            /\ written' = NoFile
            /\ event' = NoEvent
            /\ UNCHANGED <<objects, active_sessions, current_session, requests, files,
                           broadcasts>>
       ELSE LET session == objects[current_session]
                collage_b64 == create_collage(SelectedImages(session), session.layout,
                                              session.orientation)
                filename == Len(files) + 1
                message == [type |-> "session_complete",
                            session_id |-> current_session,
                            filename |-> filename,
                            collage |-> collage_b64]
            IN  /\ files' = Append(files, current_session)
                /\ written' = collage_b64
                /\ Broadcast(r, Handler("finalize", current_session, message), objects)
    /\ UNCHANGED <<uuid_count, active_connections, accepted>>

\* The SessionStatusResponse of lines 167-194.
status_response ==
    IF NoActiveSession
    THEN Success("status",
                 [session_id |-> None,
                  photo_count |-> 0,
                  layout |-> None,
                  orientation |-> None,
                  max_capture_photos |-> 0,
                  final_photos_needed |-> 0,
                  capture_complete |-> FALSE,
                  selection_complete |-> FALSE,
                  selected_photos |-> <<>>,
                  photos |-> <<>>])
    ELSE LET session == objects[current_session]
         IN  Success("status",
                     [session_id |-> current_session,
                      photo_count |-> Len(session.photos),
                      layout |-> session.layout,
                      orientation |-> session.orientation,
                      max_capture_photos |-> capture_limits[session.layout],
                      final_photos_needed |-> final_limits[session.layout],
                      capture_complete |-> session.capture_complete,
                      selection_complete |-> session.selection_complete,
                      selected_photos |-> session.selected_photos,
                      photos |-> IF session.capture_complete
                                 THEN session.photos
                                 ELSE <<>>])

\* A variant of get_session_status that takes the session out of the dict as
\* it reads it: `active_sessions.pop(current_session)`.
get_session_status_pops ==
    /\ UNCHANGED <<now, composed, fonts>>
    /\ response' = status_response
    /\ active_sessions' = active_sessions \ {current_session}
    /\ objects' = Live(objects, active_sessions', requests)
    /\ written' = NoFile
    /\ event' = NoEvent
    /\ UNCHANGED <<current_session, uuid_count, active_connections, requests,
                   files, accepted, broadcasts>>

get_session_status ==
    /\ UNCHANGED <<now, composed, fonts>>
    /\ response' = status_response
    /\ written' = NoFile
    /\ event' = NoEvent
    /\ UNCHANGED <<objects, active_sessions, current_session, uuid_count,
                   active_connections, requests, files, accepted, broadcasts>>

\* A variant of reset_session that, like the other handlers, refuses when
\* there is no active session.
reset_session_guarded ==
    /\ UNCHANGED <<now, composed, fonts>>
    /\ IF NoActiveSession
       THEN /\ response' = HTTPException("reset", 404, "No active session")
            /\ UNCHANGED <<active_sessions, current_session>>
       ELSE /\ active_sessions' = active_sessions \ {current_session}
            /\ current_session' = None
            /\ response' = Success("reset", NoBody)
    /\ objects' = Live(objects, active_sessions', requests)
    /\ written' = NoFile
    /\ event' = NoEvent
    /\ UNCHANGED <<uuid_count, active_connections, requests, files, accepted,
                   broadcasts>>

reset_session ==
    /\ UNCHANGED <<now, composed, fonts>>
    /\ active_sessions' =
          IF current_session # None /\ current_session \in active_sessions
          THEN active_sessions \ {current_session}
          ELSE active_sessions
    /\ current_session' = None
    /\ objects' = Live(objects, active_sessions', requests)
    /\ response' = Success("reset", NoBody)
    /\ written' = NoFile
    /\ event' = NoEvent
    /\ UNCHANGED <<uuid_count, active_connections, requests, files, accepted,
                   broadcasts>>

----------------------------------------------------------------------------
(* The system *)

Init ==
    /\ objects = <<>>
    /\ active_sessions = {}
    /\ current_session = None
    /\ uuid_count = 0
    /\ active_connections = <<>>
    /\ requests = [r \in Slots |-> Idle]
    /\ files = <<>>
    /\ written = NoFile
    /\ response = NoResponse
    /\ accepted = 0
    /\ event = NoEvent
    /\ broadcasts = [r \in Slots |-> NoBroadcast]
    /\ now = 0
    /\ composed = NoCall
    /\ fonts = {}

Outcomes == {"saved", "compose failed", "save failed"}

\* The model stops drawing session ids after `sessions` of them, and stops
\* reading the camera for a session that holds MaxExtra photos over its quota.
CanCapture ==
    IF NoActiveSession
    THEN TRUE
    ELSE Len(objects[current_session].photos) <
             capture_limits[objects[current_session].layout] + MaxExtra

\* The HTTP requests a client may send.
Request(layouts, orientations, lists, sessions) ==
    \/ /\ uuid_count < sessions
       /\ \E layout \in layouts, orientation \in orientations :
              create_session(layout, orientation)
    \/ /\ CanCapture
       /\ \E r \in Slots, camera_ok \in BOOLEAN : capture_photo(r, camera_ok)
    \/ \E r \in Slots, selected_indices \in lists : select_photos(r, selected_indices)
    \/ \E r \in Slots, outcome \in Outcomes : finalize_session(r, outcome)
    \/ get_session_status
    \/ reset_session

\* No WebSocket client is connected: every broadcast is an empty loop, no
\* handler is ever suspended, and the requests are served one after another.
Next == Request(LayoutType, OrientationType, SelectRequests, MaxSessions)

Spec == Init /\ [][Next]_vars

\* WebSocket clients come and go, handlers are suspended in their broadcasts
\* and other requests are served meanwhile.  The quotas play no part in the
\* interleaving: the sessions here use the smallest layout.
AsyncLayouts == {"double"}

AsyncOrientations == {"portrait"}

AsyncSelectRequests == {<<1, 0>>, <<0, 1, 2>>}

NextAsync ==
    \/ Request(AsyncLayouts, AsyncOrientations, AsyncSelectRequests, MaxAsyncSessions)
    \/ \E r \in Slots : Resume(r)
    \/ \E ws \in WebSockets : Connect(ws)
    \/ \E ws \in WebSockets : Disconnect(ws)

SpecAsync == Init /\ [][NextAsync]_vars

\* No handler is suspended.
Quiet == \A r \in Slots : requests[r].pc = "idle"

\* Several WebSocket clients come and go, also while a handler is suspended
\* in its broadcast; the requests themselves are served one at a time.
NextFanout ==
    \/ /\ Quiet
       /\ Request(AsyncLayouts, AsyncOrientations, AsyncSelectRequests, MaxSessions)
    \/ \E r \in Slots : Resume(r)
    \/ \E ws \in Subscribers : Connect(ws)
    \/ \E ws \in Subscribers : Disconnect(ws)

SpecFanout == Init /\ [][NextFanout]_vars

\* Several WebSocket clients, and requests served while others are suspended
\* in their broadcasts.
NextOverlap ==
    \/ Request(AsyncLayouts, AsyncOrientations, AsyncSelectRequests, MaxSessions)
    \/ \E r \in Slots : Resume(r)
    \/ \E ws \in Subscribers : Connect(ws)
    \/ \E ws \in Subscribers : Disconnect(ws)

SpecOverlap == Init /\ [][NextOverlap]_vars

\* Requests that do not await (create, status, reset) are served while a
\* capture, select or finalize is suspended in its broadcast; the capture,
\* select and finalize requests themselves come one at a time.
NextInterleave ==
    \/ /\ uuid_count < MaxAsyncSessions
       /\ \E layout \in AsyncLayouts, orientation \in AsyncOrientations :
              create_session(layout, orientation)
    \/ /\ Quiet
       /\ \/ /\ CanCapture
             /\ \E r \in Slots, camera_ok \in BOOLEAN : capture_photo(r, camera_ok)
          \/ \E r \in Slots, selected_indices \in AsyncSelectRequests :
                select_photos(r, selected_indices)
          \/ \E r \in Slots, outcome \in Outcomes : finalize_session(r, outcome)
    \/ get_session_status
    \/ reset_session
    \/ \E r \in Slots : Resume(r)
    \/ \E ws \in WebSockets : Connect(ws)
    \/ \E ws \in WebSockets : Disconnect(ws)

SpecInterleave == Init /\ [][NextInterleave]_vars

\* Sessions created one after another, each request served before the next;
\* the strip layout only repeats the quad layout with larger quotas, and is
\* left to Spec.
RecreateLayouts == {"double", "quad"}

RecreateLists == {<<0, 2>>, <<1, 3, 4, 5>>}

NextRecreate == Request(RecreateLayouts, OrientationType, RecreateLists, MaxCreates)

SpecRecreate == Init /\ [][NextRecreate]_vars

----------------------------------------------------------------------------
(* The composer on its own: PhotoService.create_collage called with        *)
(* pictures of several sizes, while the clock runs.                        *)

PictureSizes == <<<<1920, 1080>>, <<1080, 1920>>, <<640, 480>>, <<800, 800>>>>

Picture(k) == <<0, k>> \o PictureSizes[((k - 1) % Len(PictureSizes)) + 1]

Pictures == [k \in 1..MaxImages |-> Picture(k)]

\* Lists of none up to MaxImages pictures, in two orders.
ComposeInputs ==
    {SubSeq(list, 1, n) : n \in 0..MaxImages, list \in {Pictures, Reverse(Pictures)}}

\* One call of create_collage: it raises, or it returns the composite.
Compose(photos, layout, orientation) ==
    /\ composed' =
          [called |-> TRUE,
           photos |-> photos,
           layout |-> layout,
           orientation |-> orientation,
           error |-> ComposeError(photos, layout),
           image |-> IF ComposeError(photos, layout) = "none"
                     THEN create_collage(photos, layout, orientation)
                     ELSE NoFile]
    /\ UNCHANGED <<objects, active_sessions, current_session, uuid_count,
                   active_connections, requests, files, written, response,
                   accepted, event, broadcasts, now, fonts>>

\* A second passes.
Tick ==
    /\ now < MaxClock
    /\ now' = now + 1
    /\ UNCHANGED <<objects, active_sessions, current_session, uuid_count,
                   active_connections, requests, files, written, response,
                   accepted, event, broadcasts, composed, fonts>>

\* A font file is installed on the host, or removed from it.
Install(font_path) ==
    /\ font_path \notin fonts
    /\ fonts' = fonts \cup {font_path}
    /\ UNCHANGED <<objects, active_sessions, current_session, uuid_count,
                   active_connections, requests, files, written, response,
                   accepted, event, broadcasts, now, composed>>

Uninstall(font_path) ==
    /\ font_path \in fonts
    /\ fonts' = fonts \ {font_path}
    /\ UNCHANGED <<objects, active_sessions, current_session, uuid_count,
                   active_connections, requests, files, written, response,
                   accepted, event, broadcasts, now, composed>>

\* The composer called on hosts with any of the preferred fonts.
NextFonts ==
    \/ \E photos \in ComposeInputs, layout \in LayoutType,
          orientation \in OrientationType :
             Compose(photos, layout, orientation)
    \/ \E i \in 1..Len(font_paths) : Install(font_paths[i])
    \/ \E i \in 1..Len(font_paths) : Uninstall(font_paths[i])

SpecFonts == Init /\ [][NextFonts]_vars

NextCompose ==
    \/ \E photos \in ComposeInputs, layout \in LayoutType,
          orientation \in OrientationType :
             Compose(photos, layout, orientation)
    \/ Tick

SpecCompose == Init /\ [][NextCompose]_vars

----------------------------------------------------------------------------
(* Properties of the requests served one after another (Spec).  There every *)
(* step is one whole request, and response' is what that request returned.  *)

\* The parts of the state a request may change.
session_state == <<objects, active_sessions, current_session, files>>

\* The session current_session names, when there is one.
Active == objects[current_session]

\* The sessions that exist before and after a step.
Surviving == (DOMAIN objects) \cap (DOMAIN objects')

\* C1: create leaves a session with no photo and capture_complete false; every
\* successful capture adds one photo, and after it capture_complete, in the
\* session and in the response, is true exactly when the photo count has
\* reached capture_limits[layout]: false after each of the first
\* capture_limits[layout] - 1 captures, true after the next.
C1_CaptureCompleteAtQuota ==
    [][/\ response'.op = "create"
          => /\ objects'[current_session'].photos = <<>>
             /\ ~objects'[current_session'].capture_complete
       /\ (response'.op = "capture" /\ response'.status = 200)
          => LET before == objects[current_session]
                 after == objects'[current_session]
                 reached == Len(after.photos) >= capture_limits[after.layout]
             IN  /\ current_session' = current_session
                 /\ Len(after.photos) = Len(before.photos) + 1
                 /\ response'.body.photo_count = Len(after.photos)
                 /\ after.capture_complete = reached
                 /\ response'.body.capture_complete = reached]_vars

\* C1 happens: the 12th capture of a strip session has just completed it.
C1_Witness ==
    /\ response.op = "capture"
    /\ response.status = 200
    /\ response.body.photo_count = 12
    /\ response.body.capture_complete
    /\ Active.layout = "strip"
    /\ Active.capture_complete

\* C2: a capture that finds the active session with capture_complete set
\* fails and appends nothing, and no session ever holds more photos than
\* capture_limits[layout].
C2_CaptureOnlyWhileCapturing ==
    /\ [][(/\ response'.op = "capture"
            /\ ~NoActiveSession
            /\ Active.capture_complete)
           => /\ response'.status # 200
              /\ UNCHANGED session_state]_vars
    /\ [](\A k \in DOMAIN objects :
             Len(objects[k].photos) <= capture_limits[objects[k].layout])

\* C3: a select-photos request that finds an active session whose
\* capture_complete flag is not set is refused with "Photo capture not
\* complete yet", whatever its index list, and changes nothing.
C3_SelectBeforeCaptureCompleteFails ==
    [][(/\ response'.op = "select"
        /\ ~NoActiveSession
        /\ ~Active.capture_complete)
       => /\ response'.status = 400
          /\ response'.detail = "Photo capture not complete yet"
          /\ UNCHANGED session_state]_vars

\* C3 happens: a select-photos request was refused for an unfinished capture.
C3_Witness ==
    /\ response.op = "select"
    /\ response.detail = "Photo capture not complete yet"
    /\ ~NoActiveSession
    /\ Len(Active.photos) > 0
    /\ ~Active.capture_complete
    /\ Active.selected_photos = <<>>

\* C4: on a session whose capture is complete, a select-photos request whose
\* list is not final_limits[layout] long is refused with the wrong-count
\* error and changes nothing, for every layout.  Stated by contraposition: a
\* select step that is anything but that refusal was taken by no request with
\* a list of the wrong length.
C4_WrongCountFails ==
    [][(/\ response'.op = "select"
        /\ ~NoActiveSession
        /\ Active.capture_complete
        /\ ~(/\ response'.status = 400
             /\ response'.detail = "Must select exactly N photos"
             /\ UNCHANGED session_state))
       => \A selected_indices \in SelectRequests :
             Len(selected_indices) # final_limits[Active.layout]
                => ~\E r \in Slots : select_photos(r, selected_indices)]_vars

\* C4 happens: three indices were refused on a double session (scenario D).
C4_Witness ==
    /\ response.op = "select"
    /\ response.detail = "Must select exactly N photos"
    /\ ~NoActiveSession
    /\ Active.layout = "double"
    /\ Active.capture_complete
    /\ Active.selected_photos = <<>>

\* Some index of the list is below 0 or not below the photo count.
OutOfRange(photos, selected_indices) ==
    \E k \in 1..Len(selected_indices) :
        selected_indices[k] < 0 \/ selected_indices[k] >= Len(photos)

\* C5: on a session whose capture is complete, a select-photos request with
\* final_limits[layout] indices, one of them below 0 or not below the photo
\* count, is refused with "Invalid photo index" and changes nothing: a
\* session that had no selection still has selected_photos empty and
\* selection_complete false.
C5_InvalidIndexFails ==
    [][(/\ response'.op = "select"
        /\ ~NoActiveSession
        /\ Active.capture_complete)
       => \A selected_indices \in SelectRequests :
             (/\ Len(selected_indices) = final_limits[Active.layout]
              /\ OutOfRange(Active.photos, selected_indices)
              /\ \E r \in Slots : select_photos(r, selected_indices))
             => /\ response'.status = 400
                /\ response'.detail = "Invalid photo index"
                /\ UNCHANGED session_state
                /\ ~Active.selection_complete
                   => /\ objects'[current_session'].selected_photos = <<>>
                      /\ ~objects'[current_session'].selection_complete]_vars

\* C5 happens: a list of the right length with a bad index was refused, and
\* the session has no selection.
C5_Witness ==
    /\ response.op = "select"
    /\ response.detail = "Invalid photo index"
    /\ ~NoActiveSession
    /\ Active.capture_complete
    /\ Active.selected_photos = <<>>
    /\ ~Active.selection_complete

\* C6: the selection recorded in a session names every photo index at most
\* once.
C6_NoIndexSelectedTwice ==
    \A k \in DOMAIN objects :
        \A i, j \in 1..Len(objects[k].selected_photos) :
            i # j => objects[k].selected_photos[i] # objects[k].selected_photos[j]

\* C7: a select-photos request that finds selection_complete set fails, and
\* the indices recorded in a session with selection_complete set never change.
C7_SelectionSetOnce ==
    [][/\ (/\ response'.op = "select"
            /\ ~NoActiveSession
            /\ Active.selection_complete)
           => response'.status # 200
       /\ \A k \in Surviving :
             objects[k].selection_complete
                => objects'[k].selected_photos = objects[k].selected_photos]_vars

\* C8: a successful select-photos request records its list as given; nothing
\* but a successful select-photos request changes the recorded list; and the
\* images of the composite finalize writes are photos[i] for the recorded
\* indices i, in the recorded order, under the session's layout and
\* orientation.
C8_ComposedInSelectionOrder ==
    [][/\ (response'.op = "select" /\ response'.status = 200)
          => /\ current_session' = current_session
             /\ objects'[current_session].selected_photos =
                    response'.body.selected_indices
       /\ ~(response'.op = "select" /\ response'.status = 200)
          => \A k \in Surviving :
                objects'[k].selected_photos = objects[k].selected_photos
       /\ written' # NoFile
          => /\ ~NoActiveSession
             /\ written'.images =
                    [k \in 1..Len(Active.selected_photos) |->
                        Active.photos[Active.selected_photos[k] + 1]]
             /\ written'.layout = Active.layout
             /\ written'.orientation = Active.orientation]_vars

\* C8 happens: a quad session selected <<2, 0, 3, 1>> and the composite shows
\* its third, first, fourth and second photo, in that order.
C8_Witness ==
    /\ response.op = "finalize"
    /\ response.status = 200
    /\ written.layout = "quad"
    /\ written.images = <<<<1, 3>>, <<1, 1>>, <<1, 4>>, <<1, 2>>>>

\* C9: a finalize that finds an active session whose selection_complete flag
\* is not set is refused with "Photo selection not complete", writes no
\* composite and leaves the session, the store and the pointer as they were.
C9_FinalizeBeforeSelectionFails ==
    [][(/\ response'.op = "finalize"
        /\ ~NoActiveSession
        /\ ~Active.selection_complete)
       => /\ response'.status = 400
          /\ response'.detail = "Photo selection not complete"
          /\ written' = NoFile
          /\ UNCHANGED session_state
          /\ ~NoActiveSession']_vars

\* C9 happens: finalize was refused on a session that awaits its selection.
C9_Witness ==
    /\ response.op = "finalize"
    /\ response.detail = "Photo selection not complete"
    /\ ~NoActiveSession
    /\ Active.capture_complete
    /\ ~Active.selection_complete
    /\ files = <<>>

\* C10: after a successful finalize there is no active session; while there
\* is none and until the next create, there stays none, status reports
\* session_id None with no photos, and finalize is refused with "No active
\* session" and writes nothing.
C10_FinalizeDestroysSession ==
    /\ []((response.op = "finalize" /\ response.status = 200) => NoActiveSession)
    /\ [][NoActiveSession
           => /\ response'.op # "create" => NoActiveSession'
              /\ response'.op = "status"
                 => /\ response'.body.session_id = None
                    /\ response'.body.photo_count = 0
              /\ response'.op = "finalize"
                 => /\ response'.status = 404
                    /\ response'.detail = "No active session"
                    /\ written' = NoFile
                    /\ UNCHANGED session_state]_vars

\* C10 happens: the session was finalized, and the finalize after it was
\* refused for want of a session.
C10_Witness ==
    /\ response.op = "finalize"
    /\ response.status = 404
    /\ response.detail = "No active session"
    /\ Len(files) = 1
    /\ NoActiveSession

----------------------------------------------------------------------------
(* The phases of a session *)

Phase(session) ==
    IF session.selection_complete THEN "AwaitingFinalize"
    ELSE IF session.capture_complete THEN "AwaitingSelection"
    ELSE "Capturing"

\* No index occurs twice in the list.
NoRepeat(selected_indices) ==
    \A i, j \in 1..Len(selected_indices) :
        i # j => selected_indices[i] # selected_indices[j]

\* C11: served one after another, the requests of the run create, capture x
\* capture_limits[layout], select(final_limits[layout] distinct indices in
\* range), finalize all succeed, for every layout and orientation: create
\* leaves a session in Capturing; a capture whose camera read succeeds adds a
\* photo and leaves Capturing exactly at the quota, for AwaitingSelection;
\* such a select moves AwaitingSelection to AwaitingFinalize; a finalize whose
\* composite is saved writes one file and leaves no active session; and no
\* other request writes a file.
C11_FullRunSucceeds ==
    [][/\ response'.op = "create"
          => /\ response'.status = 200
             /\ ~NoActiveSession'
             /\ Phase(objects'[current_session']) = "Capturing"
             /\ objects'[current_session'].photos = <<>>
             /\ objects'[current_session'].layout = response'.body.layout
             /\ objects'[current_session'].orientation = response'.body.orientation
       /\ (/\ response'.op = "capture"
           /\ ~NoActiveSession
           /\ Phase(Active) = "Capturing"
           /\ \E r \in Slots : capture_photo(r, TRUE))
          => /\ response'.status = 200
             /\ current_session' = current_session
             /\ Len(objects'[current_session].photos) = Len(Active.photos) + 1
             /\ Phase(objects'[current_session]) =
                    IF Len(Active.photos) + 1 = capture_limits[Active.layout]
                    THEN "AwaitingSelection"
                    ELSE "Capturing"
       /\ (/\ response'.op = "select"
           /\ ~NoActiveSession
           /\ Phase(Active) = "AwaitingSelection")
          => \A selected_indices \in SelectRequests :
                (/\ Len(selected_indices) = final_limits[Active.layout]
                 /\ NoRepeat(selected_indices)
                 /\ ~OutOfRange(Active.photos, selected_indices)
                 /\ \E r \in Slots : select_photos(r, selected_indices))
                => /\ response'.status = 200
                   /\ current_session' = current_session
                   /\ objects'[current_session].photos = Active.photos
                   /\ Phase(objects'[current_session]) = "AwaitingFinalize"
       /\ (/\ response'.op = "finalize"
           /\ ~NoActiveSession
           /\ Phase(Active) = "AwaitingFinalize"
           /\ \E r \in Slots : finalize_session(r, "saved"))
          => /\ response'.status = 200
             /\ written' # NoFile
             /\ files' = Append(files, current_session)
             /\ NoActiveSession'
       /\ written' = NoFile => files' = files]_vars

\* C11 happens: scenario B has run to its end.  A quad landscape session took
\* six photos, selected <<1, 3, 4, 5>>, and finalize wrote the one composite
\* of its second, fourth, fifth and sixth photo and left no session.
C11_Witness ==
    /\ response.op = "finalize"
    /\ response.status = 200
    /\ written.images = <<<<1, 2>>, <<1, 4>>, <<1, 5>>, <<1, 6>>>>
    /\ written.layout = "quad"
    /\ written.orientation = "landscape"
    /\ files = <<1>>
    /\ NoActiveSession

\* C16: reset has no precondition and always succeeds, also with no session,
\* and leaves current_session None with its entry gone from the store.  With
\* no active session, and until a create, capture, select and finalize are
\* refused with "No active session" and change nothing (a step that leaves
\* `requests` as it was serves a request from its call to its return).
C16_ResetAlwaysClears ==
    /\ [](ENABLED reset_session)
    /\ [][/\ response'.op = "reset"
             => /\ response'.status = 200
                /\ current_session' = None
                /\ current_session \notin active_sessions'
                /\ active_sessions' \subseteq active_sessions
                /\ NoActiveSession'
          /\ (NoActiveSession /\ response'.op # "create")
             => /\ NoActiveSession'
                /\ (/\ response'.op \in {"capture", "select", "finalize"}
                    /\ requests' = requests)
                   => /\ response'.status \in {400, 404}
                      /\ response'.detail = "No active session"
                      /\ event' = NoEvent
                      /\ written' = NoFile
                      /\ UNCHANGED session_state]_vars

\* C16 happens: a session that was capturing was reset (it left no file), and
\* the capture after the reset was refused.
C16_Witness ==
    /\ response.op = "capture"
    /\ response.status = 400
    /\ response.detail = "No active session"
    /\ uuid_count = 1
    /\ files = <<>>
    /\ NoActiveSession

\* s is an initial part of t.
IsPrefix(s, t) == Len(s) <= Len(t) /\ SubSeq(t, 1, Len(s)) = s

\* C22: the photos of a session are append-only.  Every step leaves the
\* photos a session had as an initial part of the photos it has, in their
\* order; the only step that adds to them is a successful capture (the step
\* that hands photo_captured to broadcast), which adds one photo at the end of
\* the active session's photos and to no other session.
C22_PhotosAppendOnly ==
    [][/\ \A k \in Surviving :
             /\ IsPrefix(objects[k].photos, objects'[k].photos)
             /\ objects'[k].photos # objects[k].photos
                => /\ event'.type = "photo_captured"
                   /\ k = current_session
       /\ event'.type = "photo_captured"
          => /\ current_session \in Surviving
             /\ objects'[current_session].photos =
                    Append(Active.photos, event'.photo)
             /\ \A i \in 1..Len(Active.photos) : Active.photos[i] # event'.photo]_vars

\* C22 happens: a double session has selected two of its four photos, and
\* the four are there in the order they were taken.
C22_Witness ==
    /\ response.op = "select"
    /\ response.status = 200
    /\ ~NoActiveSession
    /\ Active.selection_complete
    /\ Active.photos = <<<<1, 1>>, <<1, 2>>, <<1, 3>>, <<1, 4>>>>

\* C23: when the frame source fails during a capture on an active session,
\* the capture answers with the failure (500), and nothing else happens: no
\* photo is appended, no flag is set, no session, file or handler changes and
\* no event is handed to broadcast.
C23_CameraFailurePropagates ==
    [][\A r \in Slots :
          (~NoActiveSession /\ capture_photo(r, FALSE))
             => /\ response'.op = "capture"
                /\ response'.status = 500
                /\ UNCHANGED session_state
                /\ requests' = requests
                /\ event' = NoEvent]_vars

\* C23 happens: the camera failed for a session that holds photos and has not
\* reached its capture quota.
C23_Witness ==
    /\ response.op = "capture"
    /\ response.status = 500
    /\ ~NoActiveSession
    /\ Len(Active.photos) = 2
    /\ ~Active.capture_complete

\* C29: the two limit tables are defined for exactly the three layouts, with
\* the values double 2 of 4, quad 4 of 6, strip 8 of 12, and for every layout
\* the final limit is at most the capture limit.  So every session finds its
\* layout in both tables, and a session that reached its capture quota holds
\* at least as many photos as its selection needs.
C29_FinalWithinCapture ==
    /\ DOMAIN capture_limits = LayoutType
    /\ DOMAIN final_limits = LayoutType
    /\ \A L \in LayoutType : final_limits[L] <= capture_limits[L]
    /\ <<final_limits["double"], capture_limits["double"]>> = <<2, 4>>
    /\ <<final_limits["quad"], capture_limits["quad"]>> = <<4, 6>>
    /\ <<final_limits["strip"], capture_limits["strip"]>> = <<8, 12>>
    /\ \A k \in DOMAIN objects :
          /\ objects[k].layout \in DOMAIN capture_limits \cap DOMAIN final_limits
          /\ objects[k].capture_complete
                => final_limits[objects[k].layout] <= Len(objects[k].photos)

\* C29 happens: a strip session has taken its twelve photos and selected eight.
C29_Witness ==
    /\ ~NoActiveSession
    /\ Active.layout = "strip"
    /\ Len(Active.photos) = 12
    /\ Active.selection_complete
    /\ Len(Active.selected_photos) = 8

\* C35: in every reachable state, a session whose selection is complete
\* holds exactly final_limits[layout] selected indices, each of them within
\* 0 .. len(photos) - 1, and a session whose selection is not complete holds
\* none.  Hence the photos finalize gathers for the composer all exist and
\* are not an empty list, nor too few for the layout.
C35_SelectionWellFormed ==
    \A k \in DOMAIN objects :
        LET session == objects[k]
        IN  IF session.selection_complete
            THEN /\ Len(session.selected_photos) = final_limits[session.layout]
                 /\ \A i \in 1..Len(session.selected_photos) :
                       /\ 0 <= session.selected_photos[i]
                       /\ session.selected_photos[i] < Len(session.photos)
                 /\ Len(SelectedImages(session)) > 0
                 /\ ~ComposeRaises(SelectedImages(session), session.layout)
            ELSE session.selected_photos = <<>>

\* C35 happens: the active quad session holds the selection <<2, 0, 3, 1>>
\* of its six photos.
C35_Witness ==
    /\ ~NoActiveSession
    /\ Active.layout = "quad"
    /\ Active.selection_complete
    /\ Active.selected_photos = <<2, 0, 3, 1>>
    /\ Len(Active.photos) = 6

\* C36: in every reachable state, the capture_complete flag of a session is
\* set if and only if the session holds at least capture_limits[layout]
\* photos.
C36_FlagIffQuotaReached ==
    \A k \in DOMAIN objects :
        objects[k].capture_complete
            <=> Len(objects[k].photos) >= capture_limits[objects[k].layout]

\* C36 happens: the active double session holds a photo more than its quota
\* of four, and its flag is set.
C36_Witness ==
    /\ ~NoActiveSession
    /\ Active.layout = "double"
    /\ Len(Active.photos) = 5
    /\ Active.capture_complete

\* C37: when create_collage or save_photo fails during a finalize whose
\* preconditions hold, the request answers with the error (500), no
\* session_complete is handed to broadcast, and the session stays the active
\* one, in AwaitingFinalize, with its photos and its selection as they were;
\* and in the state after such a failure a finalize whose composite is saved
\* succeeds.
C37_FinalizeFailureKeepsSession ==
    /\ [][\A r \in Slots, outcome \in Outcomes \ {"saved"} :
             (/\ ~NoActiveSession
              /\ Active.selection_complete
              /\ finalize_session(r, outcome))
                => /\ response'.op = "finalize"
                   /\ response'.status = 500
                   /\ event' = NoEvent
                   /\ written' = NoFile
                   /\ requests' = requests
                   /\ UNCHANGED <<objects, active_sessions, current_session>>
                   /\ Phase(objects'[current_session']) = "AwaitingFinalize"]_vars
    /\ []((/\ response.op = "finalize"
           /\ response.status = 500
           /\ ~NoActiveSession
           /\ Active.selection_complete)
             => ENABLED (/\ \E r \in Slots : finalize_session(r, "saved")
                         /\ response'.status = 200
                         /\ event'.type = "session_complete"))

\* C37 happens: a finalize of a double session with its selection <<0, 2>>
\* failed and left the session as it was, with no file.
C37_Witness ==
    /\ response.op = "finalize"
    /\ response.status = 500
    /\ ~NoActiveSession
    /\ Active.selection_complete
    /\ Active.selected_photos = <<0, 2>>
    /\ files = <<>>

\* The details of the refusals for a precondition that does not hold.
PreconditionFailures ==
    {"No active session", "Photo capture not complete yet",
     "Must select exactly N photos", "Invalid photo index",
     "Photo selection not complete"}

\* C18: a capture, select or finalize refused for a precondition (no active
\* session, capture not complete, wrong count, index out of range, selection
\* not complete) changes nothing and emits nothing: the pointer, the store,
\* the photos, selection and flags of every session and the files are what
\* they were, no message is handed to broadcast and no handler is left
\* suspended.  These refusals are the only 400 and 404 the three handlers
\* return, and no other handler hands a message to broadcast.
C18_RefusalChangesNothing ==
    [][/\ (/\ response'.op \in {"capture", "select", "finalize"}
           /\ response'.detail \in PreconditionFailures)
          => /\ response'.status \in {400, 404}
             /\ UNCHANGED <<objects, active_sessions, current_session, files,
                            requests, broadcasts>>
             /\ written' = NoFile
             /\ event' = NoEvent
       /\ (/\ response'.op \in {"capture", "select", "finalize"}
           /\ response'.status \in {400, 404})
          => response'.detail \in PreconditionFailures
       /\ event' # NoEvent
          => response'.op \in {"capture", "select", "finalize", "none"}]_vars

\* C18 happens: a session that had selected <<0, 2>> was sent a list with an
\* index out of range, the request was refused, and the session still holds
\* <<0, 2>> and its four photos.
C18_Witness ==
    /\ response.op = "select"
    /\ response.status = 400
    /\ response.detail = "Invalid photo index"
    /\ event = NoEvent
    /\ ~NoActiveSession
    /\ Len(Active.photos) = 4
    /\ Active.selected_photos = <<0, 2>>
    /\ Active.selection_complete

\* C17: status can be served in every state and changes nothing: the
\* pointer, the store and every field of every session are after the call
\* what they were before it.  It reports session_id None exactly when there is
\* no active session, and otherwise the active session's id and fields.
C17_StatusReadsOnly ==
    /\ [](ENABLED get_session_status)
    /\ [][response'.op = "status"
           => /\ UNCHANGED <<objects, active_sessions, current_session, uuid_count,
                             active_connections, requests, files>>
              /\ written' = NoFile
              /\ event' = NoEvent
              /\ response'.status = 200
              /\ (response'.body.session_id = None) <=> NoActiveSession
              /\ ~NoActiveSession
                 => /\ response'.body.session_id = current_session
                    /\ response'.body.photo_count = Len(Active.photos)
                    /\ response'.body.layout = Active.layout
                    /\ response'.body.orientation = Active.orientation
                    /\ response'.body.capture_complete = Active.capture_complete
                    /\ response'.body.selection_complete = Active.selection_complete
                    /\ response'.body.selected_photos = Active.selected_photos]_vars

\* C17 happens: status has reported a session that awaits finalize, and the
\* session is still there with its photos and its selection.
C17_Witness ==
    /\ response.op = "status"
    /\ response.body.session_id = 1
    /\ response.body.selection_complete
    /\ ~NoActiveSession
    /\ Len(Active.photos) = response.body.photo_count
    /\ Active.selected_photos = response.body.selected_photos
    /\ Phase(Active) = "AwaitingFinalize"

----------------------------------------------------------------------------
(* Properties of sessions created one after another (SpecRecreate) *)

\* C14: at most one session exists.  The store never holds a session other
\* than the one current_session names.
C14_AtMostOneSession ==
    \A k \in active_sessions : k = current_session

\* C15: create has no precondition, so it can be served in every state, and
\* it always succeeds and leaves as the active session a new one: its id is
\* the one returned and was never drawn before, its layout and orientation
\* are the requested ones, it has no photos, no selection and both flags
\* false (phase Capturing), whatever the session active before held.
C15_CreateAlwaysFresh ==
    /\ [](\A layout \in LayoutType, orientation \in OrientationType :
             ENABLED create_session(layout, orientation))
    /\ [][response'.op = "create"
           => /\ response'.status = 200
              /\ ~NoActiveSession'
              /\ current_session' = response'.body.session_id
              /\ current_session' \notin 1..uuid_count
              /\ current_session' \notin DOMAIN objects
              /\ objects'[current_session'] =
                     [session_id |-> current_session',
                      photos |-> <<>>,
                      selected_photos |-> <<>>,
                      layout |-> response'.body.layout,
                      orientation |-> response'.body.orientation,
                      template |-> None,
                      capture_complete |-> FALSE,
                      selection_complete |-> FALSE]
              /\ Phase(objects'[current_session']) = "Capturing"]_vars

\* C15 happens: create was served while a double session with its photos and
\* its selection awaited finalize, and the new quad session is empty.
C15_Witness ==
    /\ response.op = "create"
    /\ response.body.layout = "quad"
    /\ current_session = 2
    /\ 1 \in DOMAIN objects
    /\ objects[1].layout = "double"
    /\ Phase(objects[1]) = "AwaitingFinalize"
    /\ Len(objects[1].photos) = 4
    /\ objects[2].photos = <<>>
    /\ Phase(objects[2]) = "Capturing"

----------------------------------------------------------------------------
(* Properties of the requests served while others are suspended (SpecAsync) *)

\* The dict active_sessions: the sessions the store holds, by key.
session_store == [k \in active_sessions |-> objects[k]]

\* Handler r has passed the checks of finalize_session and has not reached
\* its lines 152-153: it is suspended in the broadcast between them.
FinalizeInFlight(r) ==
    requests[r].pc = "broadcast" /\ requests[r].op = "finalize"

\* C12: the requests exclude each other.  capture, select, create and reset
\* check and mutate in one uninterrupted run; finalize checks, then awaits its
\* broadcast, then deletes the session.  So the claim is: while a finalize
\* stays between its check and its deletion, no other request changes the
\* store, a stored session, the current-session pointer or the files.
C12_MutuallyExclusive ==
    [][\A r \in Slots :
          (FinalizeInFlight(r) /\ requests'[r].pc = "broadcast")
             => /\ session_store' = session_store
                /\ current_session' = current_session
                /\ files' = files]_vars

\* C13: a session is finalized at most once.  A step that writes a composite
\* or hands a session_complete event to broadcast does so for a session that
\* has no file yet (a file is written exactly when that event is emitted).
C13_FinalizedAtMostOnce ==
    [][(written' # NoFile \/ event'.type = "session_complete")
          => \A i \in 1..Len(files) : files[i] # current_session]_vars

----------------------------------------------------------------------------
(* Properties of the broadcast to several subscribers (SpecFanout) *)

\* ws is in the list of connections.
Connected(ws) ==
    \E k \in 1..Len(active_connections) : active_connections[k] = ws

\* The send_text calls the broadcast of handler r has made on ws, and those
\* of them that returned.
SendsTo(r, ws) ==
    {i \in 1..Len(broadcasts[r].sends) : broadcasts[r].sends[i].to = ws}

Received(r, ws) ==
    {i \in SendsTo(r, ws) : broadcasts[r].sends[i].ok}

\* Handler r returns from its broadcast and from its request in this step.
Returns(r) ==
    requests[r].pc = "broadcast" /\ requests'[r].pc = "idle"

\* The subscribers that were connected when handler r called broadcast and
\* have been connected ever since (a connection that is closed never comes
\* back: a client that reconnects is a new WebSocket).
Audience(r) ==
    {broadcasts[r].audience[k] : k \in 1..Len(broadcasts[r].audience)}
        \cap {active_connections[k] : k \in 1..Len(active_connections)}

\* C19: every successful capture, select and finalize sends its event exactly
\* once to each subscriber that was connected when the request was applied
\* (and still is when the broadcast ends).
C19_EventToEverySubscriber ==
    [][\A r \in Slots :
          Returns(r)
             => \A ws \in Audience(r) : Cardinality(SendsTo(r, ws)) = 1]_vars

\* C20: when a send of an event fails, every other subscriber (connected at
\* the call and ever since, and whose own send did not fail) still receives
\* the event once, and the request returns success with its change applied:
\* the photo is in the session, the selection is recorded, the session is
\* finalized.
C20_FailedSendIsolated ==
    [][\A r \in Slots :
          (/\ Returns(r)
           /\ \E i \in 1..Len(broadcasts[r].sends) : ~broadcasts[r].sends[i].ok)
             => /\ \A ws \in Audience(r) :
                       (\A i \in SendsTo(r, ws) : broadcasts[r].sends[i].ok)
                          => Cardinality(Received(r, ws)) = 1
                /\ response'.op = requests[r].op
                /\ response'.status = 200
                /\ LET h == requests[r]
                   IN  CASE h.op = "capture" ->
                              objects[h.session].photos[h.message.photo_count]
                                 = h.message.photo
                         [] h.op = "select" ->
                              objects[h.session].selected_photos
                                 = h.message.selected_indices
                         [] OTHER ->
                              /\ NoActiveSession'
                              /\ files[h.message.filename] = h.session]_vars

\* Handler r makes a send_text call in this step, and the call returns.
Delivers(r) ==
    /\ requests'[r].pc = "broadcast"
    /\ Len(broadcasts'[r].sends) = Len(broadcasts[r].sends) + 1
    /\ broadcasts'[r].sends[Len(broadcasts'[r].sends)].ok

\* C21: a subscriber receives the events in the order in which their
\* requests were applied.  When handler r delivers its event to ws, no
\* handler whose request was applied after r's has delivered to ws already.
C21_DeliveredInAppliedOrder ==
    [][\A r \in Slots :
          Delivers(r)
             => LET ws == broadcasts'[r].sends[Len(broadcasts'[r].sends)].to
                IN  \A q \in Slots \ {r} :
                       r \in broadcasts[q].after => Received(q, ws) = {}]_vars

\* The subscribers that were connected when handler r called broadcast and
\* have been removed from the list since.
Departed(r) ==
    {broadcasts[r].audience[k] : k \in 1..Len(broadcasts[r].audience)}
        \ {active_connections[k] : k \in 1..Len(active_connections)}

\* C32: a subscriber that stays connected for the whole of a broadcast is
\* sent the event also when another subscriber is removed from the list
\* while the broadcast is in progress.
C32_StayingSubscriberIsSent ==
    [][\A r \in Slots :
          (Returns(r) /\ Departed(r) # {})
             => \A ws \in Audience(r) : SendsTo(r, ws) # {}]_vars

\* C30: a finalize that returns its 200 destroys exactly the session whose
\* photos it composited.  After the step in which it returns, that session is
\* no longer in the store; and if another session had become the active one
\* while the finalize was delivering its event, that session is still there
\* and still the active one.
C30_FinalizeDestroysItsOwnSession ==
    [][\A r \in Slots :
          (Returns(r) /\ FinalizeInFlight(r) /\ response'.status = 200)
             => /\ requests[r].session \notin active_sessions'
                /\ (current_session # requests[r].session /\ ~NoActiveSession)
                      => /\ current_session' = current_session
                         /\ current_session \in active_sessions']_vars

\* C31: a finalize that has saved its composite and handed session_complete
\* to broadcast returns success: whatever was applied while the event was
\* being delivered, the step in which the finalize returns answers 200.
C31_FinalizeReturnsSuccess ==
    [][\A r \in Slots :
          (Returns(r) /\ FinalizeInFlight(r))
             => /\ response'.op = "finalize"
                /\ response'.status = 200]_vars

\* C33: the photo count a capture returns is the photo count of the
\* photo_captured event that the same capture handed to broadcast, whatever
\* other captures were applied in between.
C33_ReturnedCountIsEventCount ==
    [][\A r \in Slots :
          (Returns(r) /\ requests[r].op = "capture")
             => /\ response'.op = "capture"
                /\ response'.status = 200
                /\ response'.body.photo_count = requests[r].message.photo_count]_vars

\* C34: in every reachable state, whatever requests overlap, current_session
\* is None or is the key of an entry of active_sessions.
C34_PointerNamesStoredSession ==
    current_session = None \/ current_session \in active_sessions

\* C34 happens: a finalize has returned after a second session was created
\* during its broadcast; the pointer is None although the store is not empty.
C34_Witness ==
    /\ response.op = "finalize"
    /\ response.status = 200
    /\ current_session = None
    /\ active_sessions # {}

----------------------------------------------------------------------------
(* Properties of the composer called on its own (SpecCompose).             *)

\* The last call of the composer returned a composite.
Composed == composed.called /\ composed.error = "none"

\* C24: create_collage is deterministic.  Two calls in a row with the same
\* images, the same layout and the same orientation return the same
\* composite: nothing but its arguments decides the output.
C24_SameArgumentsSameComposite ==
    [][(/\ Composed
        /\ composed'.called
        /\ composed'.error = "none"
        /\ composed'.photos = composed.photos
        /\ composed'.layout = composed.layout
        /\ composed'.orientation = composed.orientation)
          => composed'.image = composed.image]_vars

\* C25: create_collage called with no image fails with the empty-input error
\* (ValueError "No photos provided"), whatever the layout and the orientation,
\* and returns no composite.
C25_EmptyInputFails ==
    (composed.called /\ composed.photos = <<>>)
        => /\ composed.error = "ValueError"
           /\ composed.image = NoFile

\* C25 happens: the composer was called with an empty list for the quad
\* layout, which would not read any image, and failed.
C25_Witness ==
    /\ composed.called
    /\ composed.photos = <<>>
    /\ composed.layout = "quad"
    /\ composed.orientation = "portrait"
    /\ composed.error = "ValueError"

\* The grids of the quad and strip layouts as the specification states them:
\* columns by rows of cells w wide and h high, gap pixels apart.
Grid(layout, orientation) ==
    IF layout = "quad"
    THEN IF orientation = "landscape"
         THEN [cols |-> 2, rows |-> 2, w |-> 400, h |-> 300, gap |-> 20]
         ELSE [cols |-> 1, rows |-> 4, w |-> 350, h |-> 250, gap |-> 15]
    ELSE IF orientation = "portrait"
         THEN [cols |-> 2, rows |-> 4, w |-> 280, h |-> 200, gap |-> 15]
         ELSE [cols |-> 4, rows |-> 2, w |-> 200, h |-> 280, gap |-> 15]

GridComposed == Composed /\ composed.layout \in {"quad", "strip"}

\* C26: in a quad or strip composite the i-th input image (from 0) is pasted
\* at (gap + (i mod cols) * (w + gap), gap + (i div cols) * (h + gap)): row by
\* row, in input order.  Images beyond the final limit of the layout (4, 8)
\* are not pasted, and k images below the limit fill the first k cells.
C26_RowMajorCells ==
    GridComposed
        => LET g == Grid(composed.layout, composed.orientation)
               k == Len(composed.photos)
               limit == final_limits[composed.layout]
               n == IF k < limit THEN k ELSE limit
               pastes == composed.image.pastes
           IN  /\ Len(pastes) = n
               /\ \A i \in 0..(n - 1) :
                     /\ pastes[i + 1].image = composed.photos[i + 1]
                     /\ pastes[i + 1].at =
                           <<g.gap + (i % g.cols) * (g.w + g.gap),
                             g.gap + (i \div g.cols) * (g.h + g.gap)>>

\* C26 happens: a landscape strip of nine pictures shows the first eight, the
\* sixth of them in the second cell of the second row.
C26_Witness ==
    /\ GridComposed
    /\ composed.layout = "strip"
    /\ composed.orientation = "landscape"
    /\ Len(composed.photos) = 9
    /\ Len(composed.image.pastes) = 8
    /\ composed.image.pastes[6] =
          [image |-> composed.photos[6], size |-> <<200, 280>>, at |-> <<230, 310>>]

\* C27: the canvas of a quad or strip composite is w * cols + gap * (cols + 1)
\* wide and h * rows + gap * (rows + 1) high, however many images there are:
\* quad landscape 860 x 660, quad portrait 380 x 1075, strip portrait
\* 605 x 875, strip landscape 875 x 605.
C27_GridCanvas ==
    GridComposed
        => LET g == Grid(composed.layout, composed.orientation)
               size == composed.image.size
           IN  /\ size = <<g.w * g.cols + g.gap * (g.cols + 1),
                           g.h * g.rows + g.gap * (g.rows + 1)>>
               /\ size = IF composed.layout = "quad"
                         THEN IF composed.orientation = "landscape"
                              THEN <<860, 660>>
                              ELSE <<380, 1075>>
                         ELSE IF composed.orientation = "portrait"
                              THEN <<605, 875>>
                              ELSE <<875, 605>>

\* C27 happens: a portrait quad of a single picture has the full canvas.
C27_Witness ==
    /\ GridComposed
    /\ composed.layout = "quad"
    /\ composed.orientation = "portrait"
    /\ Len(composed.photos) = 1
    /\ composed.image.size = <<380, 1075>>

\* C28: a double composite pastes the first two images, scaled to w1 x 600
\* and w2 x 600 (landscape) or 600 x h1 and 600 x h2 (portrait).  Landscape:
\* the canvas is w1 + w2 + 3 * 20 wide and 600 + 2 * 20 high, image 1 is at
\* (20, 20) and image 2 at (w1 + 40, 20).  Portrait: the canvas is
\* 600 + 2 * 20 wide and h1 + h2 + 3 * 20 high, image 1 is at (20, 20) and
\* image 2 at (20, h1 + 40).
C28_DoubleCanvas ==
    (Composed /\ composed.layout = "double")
        => LET pastes == composed.image.pastes
               size == composed.image.size
           IN  /\ Len(pastes) = 2
               /\ pastes[1].image = composed.photos[1]
               /\ pastes[2].image = composed.photos[2]
               /\ pastes[1].at = <<20, 20>>
               /\ IF composed.orientation = "landscape"
                  THEN LET w1 == pastes[1].size[1]
                           w2 == pastes[2].size[1]
                       IN  /\ pastes[1].size[2] = 600
                           /\ pastes[2].size[2] = 600
                           /\ size = <<w1 + w2 + 3 * 20, 600 + 2 * 20>>
                           /\ pastes[2].at = <<w1 + 40, 20>>
                  ELSE LET h1 == pastes[1].size[2]
                           h2 == pastes[2].size[2]
                       IN  /\ pastes[1].size[1] = 600
                           /\ pastes[2].size[1] = 600
                           /\ size = <<600 + 2 * 20, h1 + h2 + 3 * 20>>
                           /\ pastes[2].at = <<20, h1 + 40>>

\* C28 happens: a landscape double of a 1920 x 1080 and a 1080 x 1920 picture,
\* scaled to 1066 x 600 and 337 x 600, with three pictures handed in.
C28_Witness ==
    /\ Composed
    /\ composed.layout = "double"
    /\ composed.orientation = "landscape"
    /\ Len(composed.photos) = 3
    /\ composed.image.pastes[1].size = <<1066, 600>>
    /\ composed.image.pastes[2].size = <<337, 600>>
    /\ composed.image.size = <<1463, 640>>
    /\ composed.image.pastes[2].at = <<1106, 20>>

\* C38: for the quad layout in both orientations, the implementation in one
\* module (position list written out) and the service (row-by-row loop) give
\* the same canvas size and paste the image of every index 0..3 at the same
\* position, for any number of images handed in.
C38_QuadImplementationsAgree ==
    (Composed /\ composed.layout = "quad")
        => LET monolith == PhotoboothService_quad(composed.photos, composed.orientation)
               service == composed.image
           IN  /\ monolith.size = service.size
               /\ Len(monolith.pastes) = Len(service.pastes)
               /\ \A i \in 1..Len(service.pastes) :
                     /\ monolith.pastes[i].at = service.pastes[i].at
                     /\ monolith.pastes[i].image = service.pastes[i].image
                     /\ monolith.pastes[i].size = service.pastes[i].size

\* C38 happens: a landscape quad of five pictures, of which both
\* implementations paste four, the fourth at (440, 340).
C38_Witness ==
    /\ Composed
    /\ composed.layout = "quad"
    /\ composed.orientation = "landscape"
    /\ Len(composed.photos) = 5
    /\ Len(composed.image.pastes) = 4
    /\ composed.image.pastes[4].at = <<440, 340>>
    /\ PhotoboothService_quad(composed.photos, "landscape").pastes[4].at = <<440, 340>>

\* The rectangle a paste covers: left, top, right and bottom edge.
Left(p) == p.at[1]

Top(p) == p.at[2]

Right(p) == p.at[1] + p.size[1]

Bottom(p) == p.at[2] + p.size[2]

\* p and q share a row (their vertical extents meet), or a column.
SameRow(p, q) == Top(p) < Bottom(q) /\ Top(q) < Bottom(p)

SameColumn(p, q) == Left(p) < Right(q) /\ Left(q) < Right(p)

\* The gap of a layout as the specification states it.
GapOf(layout, orientation) ==
    IF layout = "double" THEN 20 ELSE Grid(layout, orientation).gap

\* The number of cells of a layout.
CellsOf(layout, orientation) ==
    IF layout = "double"
    THEN 2
    ELSE Grid(layout, orientation).cols * Grid(layout, orientation).rows

\* Every pasted rectangle lies inside the canvas of image and no two overlap.
InsideAndApart(image) ==
    LET P == {image.pastes[i] : i \in 1..Len(image.pastes)}
    IN  /\ \A p \in P :
              /\ 0 <= Left(p)
              /\ 0 <= Top(p)
              /\ Right(p) <= image.size[1]
              /\ Bottom(p) <= image.size[2]
        /\ \A i, j \in 1..Len(image.pastes) :
              i # j => LET p == image.pastes[i]
                           q == image.pastes[j]
                       IN  ~(SameRow(p, q) /\ SameColumn(p, q))

\* Rectangles next to each other in a row or in a column are one gap apart.
NeighboursOneGapApart(image, gap) ==
    LET P == {image.pastes[i] : i \in 1..Len(image.pastes)}
    IN  \A p, q \in P :
            /\ (/\ SameRow(p, q)
                /\ Right(p) <= Left(q)
                /\ ~\E m \in P : /\ SameRow(p, m)
                                  /\ Right(p) <= Left(m)
                                  /\ Right(m) <= Left(q))
                  => Left(q) - Right(p) = gap
            /\ (/\ SameColumn(p, q)
                /\ Bottom(p) <= Top(q)
                /\ ~\E m \in P : /\ SameColumn(p, m)
                                  /\ Bottom(p) <= Top(m)
                                  /\ Bottom(m) <= Top(q))
                  => Top(q) - Bottom(p) = gap

\* A rectangle with none to its left is one gap from the left border, and a
\* rectangle with none above it one gap from the top border.
LeftAndTopBorder(image, gap) ==
    LET P == {image.pastes[i] : i \in 1..Len(image.pastes)}
    IN  \A p \in P :
            /\ (~\E q \in P : SameRow(p, q) /\ Right(q) <= Left(p))
                  => Left(p) = gap
            /\ (~\E q \in P : SameColumn(p, q) /\ Bottom(q) <= Top(p))
                  => Top(p) = gap

\* A rectangle with none to its right is one gap from the right border, and
\* a rectangle with none below it one gap from the bottom border.
RightAndBottomBorder(image, gap) ==
    LET P == {image.pastes[i] : i \in 1..Len(image.pastes)}
    IN  \A p \in P :
            /\ (~\E q \in P : SameRow(p, q) /\ Right(p) <= Left(q))
                  => image.size[1] - Right(p) = gap
            /\ (~\E q \in P : SameColumn(p, q) /\ Bottom(p) <= Top(q))
                  => image.size[2] - Bottom(p) = gap

\* C39 as stated: in every composite, of every layout and orientation, the
\* pasted rectangles lie inside the canvas, no two overlap, neighbours in a
\* row or column are exactly one gap apart, and the outermost rectangles are
\* exactly one gap from the canvas border on each of the four sides.
C39_PastesSpaced ==
    Composed
        => LET gap == GapOf(composed.layout, composed.orientation)
           IN  /\ InsideAndApart(composed.image)
               /\ NeighboursOneGapApart(composed.image, gap)
               /\ LeftAndTopBorder(composed.image, gap)
               /\ RightAndBottomBorder(composed.image, gap)

\* C39, amended: in every composite the pasted rectangles lie inside the
\* canvas, no two overlap, neighbours are exactly one gap apart and the
\* outermost rectangles are one gap from the left and the top border; they
\* are one gap from the right and the bottom border as well when the images
\* handed in fill every cell of the layout.
C39_PastesSpacedWhenFull ==
    Composed
        => LET gap == GapOf(composed.layout, composed.orientation)
           IN  /\ InsideAndApart(composed.image)
               /\ NeighboursOneGapApart(composed.image, gap)
               /\ LeftAndTopBorder(composed.image, gap)
               /\ Len(composed.photos) >= CellsOf(composed.layout, composed.orientation)
                     => RightAndBottomBorder(composed.image, gap)

\* C39 happens: a landscape strip with all its eight cells filled.
C39_Witness ==
    /\ Composed
    /\ composed.layout = "strip"
    /\ composed.orientation = "landscape"
    /\ Len(composed.photos) = 8
    /\ Len(composed.image.pastes) = 8
    /\ Right(composed.image.pastes[8]) = composed.image.size[1] - 15
    /\ Bottom(composed.image.pastes[8]) = composed.image.size[2] - 15

----------------------------------------------------------------------------
(* Properties of the timestamp font (SpecFonts) *)

\* The preferred fonts that load on this host, by their place in the list.
Loadable == {i \in 1..Len(font_paths) : font_paths[i] \in fonts}

\* C40: drawing the timestamp never fails for lack of a font.  Every call of
\* the composer that returns a composite has drawn the timestamp on it, with
\* the first of the preferred fonts that loads on the host, and with the
\* built-in default font when none of them loads.
C40_TimestampFontFallsBack ==
    [][(composed' # composed /\ composed'.error = "none")
          => /\ composed'.image.timestamp = now
             /\ composed'.image.font # NoFont
             /\ composed'.image.font =
                   IF Loadable = {}
                   THEN "default"
                   ELSE font_paths[CHOOSE i \in Loadable :
                                       \A j \in Loadable : i <= j]]_vars

\* C40 happens: no preferred font loads on the host, and the composite of a
\* strip carries its timestamp, drawn with the default font.
C40_Witness ==
    /\ Composed
    /\ fonts = {}
    /\ composed.layout = "strip"
    /\ composed.image.font = "default"
    /\ composed.image.timestamp = now

====
